---- MODULE Spec2Model ----
(***************************************************************************)
(* Model of the swap dispatcher (useSwapCallback, useSwapTransactionStatus),*)
(* the provider adapter (clientToProvider) and the RPC endpoint ordering   *)
(* (orderedTransportUrls) of the web front-end.                            *)
(***************************************************************************)
EXTENDS Integers, Sequences, FiniteSets, TLC

\* ------------------------------------------------------------------ bounds
MaxCalls == 1
MaxAmount == 1
MaxUrls == 2

\* ------------------------------------------------------ values and inputs
\* JavaScript's undefined, for the string-valued and the number-valued slots.
Undefined == "undefined"
NoChainId == 0

\* UniverseChainId values used by the model: two EVM chains, one non-EVM
\* chain, and a wallet chain id that is not a UniverseChainId at all.
EVMChainIds == {1, 2}
NonEVMChainIds == {3}
UnknownWalletChainId == 9
SupportedChainIds == EVMChainIds \cup NonEVMChainIds

isEVMChain(chainId) == chainId \in EVMChainIds

useSupportedChainId(chainId) ==
    IF chainId \in SupportedChainIds THEN chainId ELSE NoChainId

NoTrade == [fillType |-> "none"]

InputAmounts == 1..MaxAmount
OutputAmounts == {10}
TradeTypes == {"EXACT_INPUT", "EXACT_OUTPUT"}
OffchainOrderTypes == {"DUTCH_V2", "PRIORITY"}

ClassicTrades ==
    [fillType : {"Classic"}, tradeType : TradeTypes,
     inputCurrency : {"0xIN"}, outputCurrency : {"0xOUT"},
     inputAmount : InputAmounts, outputAmount : OutputAmounts]

UniswapXTrades ==
    [fillType : {"UniswapX"}, tradeType : TradeTypes,
     inputCurrency : {"0xIN"}, outputCurrency : {"0xOUT"},
     inputAmount : InputAmounts, outputAmount : OutputAmounts,
     offchainOrderType : OffchainOrderTypes]

Trades == ClassicTrades \cup UniswapXTrades

isUniswapXTrade(t) == t.fillType = "UniswapX"
isClassicTrade(t) == t.fillType = "Classic"

\* allowedSlippage, a Percent, in basis points
SlippageBps == {0, 10000}

Accounts ==
    [isConnected : BOOLEAN, address : {"", "0xA"},
     chainId : {1, UnknownWalletChainId}]

SwapChainIds == {NoChainId} \cup SupportedChainIds

\* ---------------------------------------------------------- pure helpers
Digits == <<"0", "1", "2", "3", "4", "5", "6", "7", "8", "9">>

RECURSIVE quotientToString(_)
quotientToString(n) ==
    IF n < 10 THEN Digits[n + 1]
    ELSE quotientToString(n \div 10) \o Digits[(n % 10) + 1]

minimumAmountOut(t, bps) ==
    IF t.tradeType = "EXACT_OUTPUT" THEN t.outputAmount
    ELSE (t.outputAmount * 10000) \div (10000 + bps)

maximumAmountIn(t, bps) ==
    IF t.tradeType = "EXACT_INPUT" THEN t.inputAmount
    ELSE (t.inputAmount * (10000 + bps)) \div 10000

\* error messages thrown by the swap callback
ErrMissingTrade == "missing trade"
ErrWalletNotConnected == "wallet must be connected to swap"
ErrMissingChain == "missing swap chainId"
ErrUnsupportedChainFamily == "non EVM chain in legacy limits flow"
ErrChainMismatch == "wallet must be connected to correct chain to swap"
ValidationErrors ==
    {ErrMissingTrade, ErrWalletNotConnected, ErrMissingChain,
     ErrUnsupportedChainFamily, ErrChainMismatch}

\* errors an execution strategy may reject with
StrategyErrors == {"user rejected request", "submission failed"}

NoResult == [type |-> "none"]

VARIABLES
    trade, account, supportedConnectedChainId, swapChainId, allowedSlippage,
    walletChainId,
    pc, calls, op, error, result,
    orders, transactions, ordersBefore, transactionsBefore,
    switchAttempts, correctChain, strategyCalls, thrown, resolved,
    statusQuery, statusOut,
    providers, constructed, pClient, pChainId, pOutcome, pReturn, pHit,
    rpcUrls, urlOut

swapVars ==
    <<trade, account, supportedConnectedChainId, swapChainId, allowedSlippage,
      walletChainId, pc, calls, op, error, result, orders, transactions,
      ordersBefore, transactionsBefore, switchAttempts, correctChain,
      strategyCalls, thrown, resolved, statusQuery, statusOut>>

providerVars ==
    <<providers, constructed, pClient, pChainId, pOutcome, pReturn, pHit>>

urlVars == <<rpcUrls, urlOut>>

vars == <<swapVars, providerVars, urlVars>>

\* ------------------------------------------------- external collaborators
NoHash == 0
NoDeadline == 0
NoTransaction == [hash |-> NoHash]

\* The two injected execution strategies and the results they resolve with.
uniswapXSwapCallbackResults(hash) ==
    [type : {"UniswapX", "UniswapXv2"},
     response : [orderHash : {hash}, deadline : {100}, encodedOrder : {"0xORDER"}]]

universalRouterSwapCallbackResults(hash) ==
    [type : {"Classic"}, response : [hash : {hash}], deadline : {NoDeadline, 200}]

addOrder(store, order) == Append(store, order)

addTransaction(store, response, info, deadline) ==
    Append(store, [hash |-> response.hash, info |-> info,
                   deadline |-> deadline, status |-> "pending"])

useTransaction(store, hash) ==
    IF hash = NoHash \/ ~(\E i \in 1..Len(store) : store[i].hash = hash)
    THEN NoTransaction
    ELSE store[CHOOSE i \in 1..Len(store) : store[i].hash = hash]

\* ------------------------------------------------------- useSwapCallback
swapCallbackMutant(t) ==
    IF isUniswapXTrade(t) THEN "universalRouterSwapCallback"
    ELSE "uniswapXSwapCallback"

swapCallback(t) ==
    IF isUniswapXTrade(t) THEN "uniswapXSwapCallback"
    ELSE "universalRouterSwapCallback"

swapCallbackResults(strategy, hash) ==
    IF strategy = "uniswapXSwapCallback" THEN uniswapXSwapCallbackResults(hash)
    ELSE universalRouterSwapCallbackResults(hash)

\* The validation chain: an error message, "selectChain" when a chain switch
\* has to be attempted, or "ok".
ValidateMutant(t, acc, swapChain, connectedChain) ==
    IF t = NoTrade THEN ErrMissingTrade
    ELSE IF swapChain = NoChainId THEN ErrMissingChain
    ELSE IF ~acc.isConnected \/ acc.address = "" THEN ErrWalletNotConnected
    ELSE IF ~isEVMChain(swapChain) THEN ErrUnsupportedChainFamily
    ELSE IF connectedChain = NoChainId \/ connectedChain # swapChain THEN "selectChain"
    ELSE "ok"

Validate(t, acc, swapChain, connectedChain) ==
    IF t = NoTrade THEN ErrMissingTrade
    ELSE IF ~acc.isConnected \/ acc.address = "" THEN ErrWalletNotConnected
    ELSE IF swapChain = NoChainId THEN ErrMissingChain
    ELSE IF ~isEVMChain(swapChain) THEN ErrUnsupportedChainFamily
    ELSE IF connectedChain = NoChainId \/ connectedChain # swapChain THEN "selectChain"
    ELSE "ok"

isUniswapXOrder(r) == r.type = "UniswapX" \/ r.type = "UniswapXv2"

SwapInfoMutant(t, bps, r) ==
    [type |-> "swap",
     inputCurrencyId |-> t.inputCurrency,
     outputCurrencyId |-> t.outputCurrency,
     isUniswapXOrder |-> isUniswapXOrder(r)]
    @@
    (IF isClassicTrade(t)
     THEN [tradeType |-> "EXACT_INPUT",
           inputCurrencyAmountRaw |-> quotientToString(t.inputAmount),
           expectedOutputCurrencyAmountRaw |-> quotientToString(t.outputAmount),
           minimumOutputCurrencyAmountRaw |-> quotientToString(minimumAmountOut(t, bps))]
     ELSE [tradeType |-> "EXACT_OUTPUT",
           maximumInputCurrencyAmountRaw |-> quotientToString(maximumAmountIn(t, bps)),
           outputCurrencyAmountRaw |-> quotientToString(t.outputAmount),
           expectedInputCurrencyAmountRaw |-> quotientToString(t.inputAmount)])

SwapInfo(t, bps, r) ==
    [type |-> "swap",
     inputCurrencyId |-> t.inputCurrency,
     outputCurrencyId |-> t.outputCurrency,
     isUniswapXOrder |-> isUniswapXOrder(r)]
    @@
    (IF t.tradeType = "EXACT_INPUT"
     THEN [tradeType |-> "EXACT_INPUT",
           inputCurrencyAmountRaw |-> quotientToString(t.inputAmount),
           expectedOutputCurrencyAmountRaw |-> quotientToString(t.outputAmount),
           minimumOutputCurrencyAmountRaw |-> quotientToString(minimumAmountOut(t, bps))]
     ELSE [tradeType |-> "EXACT_OUTPUT",
           maximumInputCurrencyAmountRaw |-> quotientToString(maximumAmountIn(t, bps)),
           outputCurrencyAmountRaw |-> quotientToString(t.outputAmount),
           expectedInputCurrencyAmountRaw |-> quotientToString(t.inputAmount)])

\* The record handed to addOrder.
OrderDetails(t, acc, connectedChain, info, r) ==
    [offerer |-> acc.address,
     orderHash |-> r.response.orderHash,
     chainId |-> connectedChain,
     expiry |-> r.response.deadline,
     swapInfo |-> info,
     encodedOrder |-> r.response.encodedOrder,
     offchainOrderType |->
         IF isUniswapXTrade(t) THEN t.offchainOrderType ELSE "DUTCH_AUCTION"]

\* The switch on result.type: the pair <<order store, transaction store>>
\* after the result has been recorded.
RecordResultMutant(t, acc, connectedChain, info, r, os, txs) ==
    IF isUniswapXTrade(t)
    THEN <<os, addTransaction(txs, [hash |-> r.response.orderHash], info, NoDeadline)>>
    ELSE <<addOrder(os, [offerer |-> acc.address, orderHash |-> r.response.hash,
                         chainId |-> connectedChain, swapInfo |-> info]), txs>>

RecordResult(t, acc, connectedChain, info, r, os, txs) ==
    IF r.type = "UniswapX" \/ r.type = "UniswapXv2"
    THEN <<addOrder(os, OrderDetails(t, acc, connectedChain, info, r)), txs>>
    ELSE <<os, addTransaction(txs, r.response, info, r.deadline)>>

\* ------------------------------------------------------------- actions
othersUnchangedBySwap ==
    UNCHANGED <<statusQuery, statusOut, providerVars, urlVars>>
hookUnchanged ==
    UNCHANGED <<trade, account, supportedConnectedChainId, swapChainId,
                allowedSlippage>>

\* One invocation of the callback returned by useSwapCallback, up to its
\* first suspension point (or its synchronous throw).  The arguments are the
\* values the closure captured at the render that created it.
SwapCall(t, acc, chain, bps) ==
    /\ pc = "idle"
    /\ calls < MaxCalls
    /\ trade' = t
    /\ account' = acc
    /\ walletChainId' = acc.chainId
    /\ supportedConnectedChainId' = useSupportedChainId(acc.chainId)
    /\ swapChainId' = chain
    /\ allowedSlippage' = bps
    /\ calls' = calls + 1
    /\ op' = "swap"
    /\ result' = NoResult
    /\ thrown' = Undefined
    /\ resolved' = NoResult
    /\ correctChain' = Undefined
    /\ ordersBefore' = orders
    /\ transactionsBefore' = transactions
    /\ LET v == Validate(t, acc, chain, useSupportedChainId(acc.chainId)) IN
          /\ error' = IF v \in ValidationErrors THEN v ELSE Undefined
          /\ pc' = IF v = "selectChain" THEN "selectChain"
                   ELSE IF v = "ok" THEN "swapCallback" ELSE "idle"
          /\ switchAttempts' = IF v = "selectChain" THEN 1 ELSE 0
          /\ strategyCalls' = IF v = "ok" THEN <<swapCallback(t)>> ELSE <<>>
    /\ UNCHANGED <<orders, transactions>>
    /\ statusQuery' = NoResult
    /\ statusOut' = Undefined
    /\ UNCHANGED <<providerVars, urlVars>>

useSwapCallback ==
    \E t \in Trades \cup {NoTrade}, acc \in Accounts,
       chain \in SwapChainIds, bps \in SlippageBps :
       SwapCall(t, acc, chain, bps)

\* await selectChain(swapChainId) settles with a boolean.
SelectChainSettledMutant ==
    /\ pc = "selectChain"
    /\ \E ok \in BOOLEAN :
          /\ correctChain' = IF ok THEN "true" ELSE "false"
          /\ walletChainId' = IF ok THEN swapChainId ELSE walletChainId
          /\ error' = Undefined
          /\ pc' = "swapCallback"
          /\ strategyCalls' = <<swapCallback(trade)>>
    /\ hookUnchanged
    /\ UNCHANGED <<calls, op, result, orders, transactions, ordersBefore,
                   transactionsBefore, switchAttempts, thrown, resolved>>
    /\ othersUnchangedBySwap

SelectChainSettled ==
    /\ pc = "selectChain"
    /\ \E ok \in BOOLEAN :
          /\ correctChain' = IF ok THEN "true" ELSE "false"
          /\ walletChainId' = IF ok THEN swapChainId ELSE walletChainId
          /\ error' = IF ok THEN Undefined ELSE ErrChainMismatch
          /\ pc' = IF ok THEN "swapCallback" ELSE "idle"
          /\ strategyCalls' = IF ok THEN <<swapCallback(trade)>> ELSE <<>>
    /\ hookUnchanged
    /\ UNCHANGED <<calls, op, result, orders, transactions, ordersBefore,
                   transactionsBefore, switchAttempts, thrown, resolved>>
    /\ othersUnchangedBySwap

\* await swapCallback() rejects: the error propagates out of the callback.
SwapCallbackRejectedMutant ==
    /\ pc = "swapCallback"
    /\ \E e \in StrategyErrors :
          /\ thrown' = e
          /\ error' = e
    /\ resolved' = NoResult
    /\ transactions' = addTransaction(transactions, [hash |-> calls],
                                      SwapInfo(trade, allowedSlippage, NoResult),
                                      NoDeadline)
    /\ pc' = "idle"
    /\ hookUnchanged
    /\ UNCHANGED <<walletChainId, calls, op, result, orders, ordersBefore,
                   transactionsBefore, switchAttempts, correctChain, strategyCalls>>
    /\ othersUnchangedBySwap

SwapCallbackRejected ==
    /\ pc = "swapCallback"
    /\ \E e \in StrategyErrors :
          /\ thrown' = e
          /\ error' = e
    /\ resolved' = NoResult
    /\ pc' = "idle"
    /\ hookUnchanged
    /\ UNCHANGED <<walletChainId, calls, op, result, orders, transactions,
                   ordersBefore, transactionsBefore, switchAttempts,
                   correctChain, strategyCalls>>
    /\ othersUnchangedBySwap

\* await swapCallback() resolves: build swapInfo, record, return the result.
SwapCallbackResolved ==
    /\ pc = "swapCallback"
    /\ \E r \in swapCallbackResults(strategyCalls[1], calls) :
          LET info == SwapInfo(trade, allowedSlippage, r)
              stores == RecordResult(trade, account, supportedConnectedChainId,
                                     info, r, orders, transactions)
          IN  /\ orders' = stores[1]
              /\ transactions' = stores[2]
              /\ resolved' = r
              /\ result' = r
    /\ pc' = "idle"
    /\ hookUnchanged
    /\ UNCHANGED <<walletChainId, calls, op, error, ordersBefore,
                   transactionsBefore, switchAttempts, correctChain,
                   strategyCalls, thrown>>
    /\ othersUnchangedBySwap

\* --------------------------------------------- useSwapTransactionStatus
SwapResultInputs ==
    {NoResult}
    \cup UNION {uniswapXSwapCallbackResults(h) : h \in 1..(MaxCalls + 1)}
    \cup UNION {universalRouterSwapCallbackResults(h) : h \in 1..(MaxCalls + 1)}

useSwapTransactionStatusMutant(swapResult, store) ==
    LET transaction ==
            useTransaction(store,
                IF swapResult.type = "Classic" THEN swapResult.response.hash
                ELSE IF swapResult.type = "none" THEN NoHash
                ELSE swapResult.response.orderHash)
    IN  IF transaction = NoTransaction THEN Undefined ELSE transaction.status

useSwapTransactionStatus(swapResult, store) ==
    LET transaction ==
            useTransaction(store,
                IF swapResult.type = "Classic" THEN swapResult.response.hash
                ELSE NoHash)
    IN  IF transaction = NoTransaction THEN Undefined ELSE transaction.status

StatusLookup ==
    /\ pc = "idle"
    /\ \E sr \in SwapResultInputs :
          /\ statusQuery' = sr
          /\ statusOut' = useSwapTransactionStatus(sr, transactions)
    /\ op' = "status"
    /\ hookUnchanged
    /\ UNCHANGED <<walletChainId, pc, calls, error, result, orders,
                   transactions, ordersBefore, transactionsBefore,
                   switchAttempts, correctChain, strategyCalls, thrown,
                   resolved>>
    /\ UNCHANGED <<providerVars, urlVars>>

\* The transaction store's own update mechanism settles a pending record.
FinalizeTransaction ==
    /\ pc = "idle"
    /\ \E i \in 1..Len(transactions), s \in {"success", "failed"} :
          /\ transactions[i].status = "pending"
          /\ transactions' = [transactions EXCEPT ![i].status = s]
    /\ op' = "finalize"
    /\ hookUnchanged
    /\ UNCHANGED <<walletChainId, pc, calls, error, result, orders,
                   ordersBefore, transactionsBefore, switchAttempts,
                   correctChain, strategyCalls, thrown, resolved, statusQuery,
                   statusOut>>
    /\ UNCHANGED <<providerVars, urlVars>>

InitSwap ==
    /\ trade = NoTrade
    /\ account = [isConnected |-> FALSE, address |-> "", chainId |-> UnknownWalletChainId]
    /\ walletChainId = UnknownWalletChainId
    /\ supportedConnectedChainId = NoChainId
    /\ swapChainId = NoChainId
    /\ allowedSlippage = 0
    /\ pc = "idle"
    /\ calls = 0
    /\ op = "init"
    /\ error = Undefined
    /\ result = NoResult
    /\ orders = <<>>
    /\ transactions = <<>>
    /\ ordersBefore = <<>>
    /\ transactionsBefore = <<>>
    /\ switchAttempts = 0
    /\ correctChain = Undefined
    /\ strategyCalls = <<>>
    /\ thrown = Undefined
    /\ resolved = NoResult
    /\ statusQuery = NoResult
    /\ statusOut = Undefined

\* ------------------------------------------------------ clientToProvider
NoClient == [id |-> 0]
NoChain == [id |-> NoChainId]
NoNetwork == [chainId |-> NoChainId]
NoProvider == [id |-> 0]

\* viem chains: mainnet declares an ENS registry, the second chain does not.
ProviderChains ==
    {[id |-> 1, name |-> "Ethereum", ensRegistryAddress |-> "0xENS"],
     [id |-> 2, name |-> "OP Mainnet", ensRegistryAddress |-> Undefined]}

\* Client handles: two distinct handles on mainnet, one on the second chain,
\* and one that carries no chain.
ClientHandles ==
    {[id |-> 1, transport |-> "t1",
      chain |-> [id |-> 1, name |-> "Ethereum", ensRegistryAddress |-> "0xENS"]],
     [id |-> 2, transport |-> "t2",
      chain |-> [id |-> 1, name |-> "Ethereum", ensRegistryAddress |-> "0xENS"]],
     [id |-> 3, transport |-> "t3",
      chain |-> [id |-> 2, name |-> "OP Mainnet", ensRegistryAddress |-> Undefined]],
     [id |-> 4, transport |-> "t4", chain |-> NoChain]}

ClientIds == {c.id : c \in ClientHandles}
ProviderChainIdInputs == {NoChainId, 1, 5}

networkOf(chain, chainId) ==
    IF chain # NoChain
    THEN [chainId |-> chain.id, name |-> chain.name,
          ensAddress |-> chain.ensRegistryAddress]
    ELSE IF chainId # NoChainId
         THEN [chainId |-> chainId, name |-> "Unsupported"]
         ELSE NoNetwork

\* clientToProvider against the cache `cache`; `fresh` is the identity a newly
\* constructed Web3Provider gets.  The result is how the call ended, what it
\* returned, the cache after the call and whether a provider was constructed.
clientToProviderMutant(client, chainId, cache, fresh) ==
    IF client = NoClient
    THEN [outcome |-> "return", value |-> NoProvider, providers |-> cache,
          built |-> FALSE]
    ELSE IF client.chain = NoChain
    THEN [outcome |-> "throw", value |-> NoProvider, providers |-> cache,
          built |-> FALSE]
    ELSE LET network == networkOf(client.chain, chainId) IN
         IF network = NoNetwork
         THEN [outcome |-> "return", value |-> NoProvider, providers |-> cache,
               built |-> FALSE]
         ELSE IF cache[client.id] # NoProvider
                 /\ cache[client.id].network.chainId = chainId
         THEN [outcome |-> "return", value |-> cache[client.id],
               providers |-> cache, built |-> FALSE]
         ELSE LET provider == [id |-> fresh, transport |-> client.transport,
                               network |-> network]
              IN  [outcome |-> "return", value |-> provider,
                   providers |-> [cache EXCEPT ![client.id] = provider],
                   built |-> TRUE]

clientToProvider(client, chainId, cache, fresh) ==
    IF client = NoClient
    THEN [outcome |-> "return", value |-> NoProvider, providers |-> cache,
          built |-> FALSE]
    ELSE IF client.chain = NoChain
    \* chain.contracts is read before chain is tested: a TypeError
    THEN [outcome |-> "throw", value |-> NoProvider, providers |-> cache,
          built |-> FALSE]
    ELSE LET network == networkOf(client.chain, chainId) IN
         IF network = NoNetwork
         THEN [outcome |-> "return", value |-> NoProvider, providers |-> cache,
               built |-> FALSE]
         ELSE IF cache[client.id] # NoProvider
         THEN [outcome |-> "return", value |-> cache[client.id],
               providers |-> cache, built |-> FALSE]
         ELSE LET provider == [id |-> fresh, transport |-> client.transport,
                               network |-> network]
              IN  [outcome |-> "return", value |-> provider,
                   providers |-> [cache EXCEPT ![client.id] = provider],
                   built |-> TRUE]

ClientToProviderCall ==
    /\ \E client \in ClientHandles \cup {NoClient},
          chainId \in ProviderChainIdInputs :
          LET r == clientToProvider(client, chainId, providers,
                                    Len(constructed) + 1)
          IN  /\ pClient' = client
              /\ pChainId' = chainId
              /\ pOutcome' = r.outcome
              /\ pReturn' = r.value
              /\ pHit' = (client # NoClient /\ providers[client.id] # NoProvider)
              /\ providers' = r.providers
              /\ constructed' = IF r.built
                                THEN Append(constructed,
                                            [client |-> client.id, chainId |-> chainId])
                                ELSE constructed
    /\ UNCHANGED <<swapVars, urlVars>>

InitProvider ==
    /\ providers = [c \in ClientIds |-> NoProvider]
    /\ constructed = <<>>
    /\ pClient = NoClient
    /\ pChainId = NoChainId
    /\ pOutcome = "none"
    /\ pReturn = NoProvider
    /\ pHit = FALSE

\* -------------------------------------------------- orderedTransportUrls
SeqsUpTo(S, n) == UNION {[1..k -> S] : k \in 0..n}

\* An endpoint category of chain.rpcUrls: missing, or present with its http list.
Category(urls, n) ==
    {[present |-> FALSE, http |-> <<>>]}
    \cup {[present |-> TRUE, http |-> h] : h \in SeqsUpTo(urls, n)}

RpcUrlInputs ==
    [interface : Category({"", "a", "b", "c"}, MaxUrls),
     default : Category({"", "a", "b", "c"}, MaxUrls),
     public : Category({"", "a", "d"}, 1),
     fallback : Category({"", "c"}, 1)]

NoRpcUrls ==
    [interface |-> [present |-> FALSE, http |-> <<>>],
     default |-> [present |-> FALSE, http |-> <<>>],
     public |-> [present |-> FALSE, http |-> <<>>],
     fallback |-> [present |-> FALSE, http |-> <<>>]]

NotBuilt == <<"not built">>

\* category?.http ?? []
httpOrEmpty(category) == IF category.present THEN category.http ELSE <<>>

\* filter(Boolean) on strings
Boolean(url) == url # ""

\* Array.from(new Set(array)): insertion order, first occurrence kept
RECURSIVE ArrayFromSet(_)
ArrayFromSet(array) ==
    IF array = <<>> THEN <<>>
    ELSE LET front == ArrayFromSet(SubSeq(array, 1, Len(array) - 1))
             last == array[Len(array)]
         IN  IF \E i \in 1..Len(front) : front[i] = last THEN front
             ELSE Append(front, last)

orderedTransportUrlsMutant(urls) ==
    LET orderedRpcUrls ==
            httpOrEmpty(urls.default) \o httpOrEmpty(urls.interface)
            \o httpOrEmpty(urls.public) \o httpOrEmpty(urls.fallback)
    IN  ArrayFromSet(SelectSeq(orderedRpcUrls, Boolean))

orderedTransportUrls(urls) ==
    LET orderedRpcUrls ==
            httpOrEmpty(urls.interface) \o httpOrEmpty(urls.default)
            \o httpOrEmpty(urls.public) \o httpOrEmpty(urls.fallback)
    IN  ArrayFromSet(SelectSeq(orderedRpcUrls, Boolean))

BuildTransportUrls ==
    /\ urlOut = NotBuilt
    /\ urlOut' = orderedTransportUrls(rpcUrls)
    /\ UNCHANGED <<rpcUrls, swapVars, providerVars>>

InitUrls ==
    /\ rpcUrls = NoRpcUrls
    /\ urlOut = NotBuilt

\* ------------------------------------------------------- specifications
Init == InitSwap /\ InitProvider /\ InitUrls

Next ==
    \/ useSwapCallback
    \/ SelectChainSettled
    \/ SwapCallbackRejected
    \/ SwapCallbackResolved

Spec == Init /\ [][Next]_vars

\* The status hook next to swaps of a connected wallet.
connectedSwap ==
    \E t \in {x \in Trades : x.tradeType = "EXACT_INPUT" /\ x.inputAmount = 1
                              /\ x.outputAmount = 10},
       acc \in {x \in Accounts : x.isConnected /\ x.address # ""
                                  /\ x.chainId \in EVMChainIds},
       chain \in EVMChainIds :
       SwapCall(t, acc, chain, 0)

NextStatus ==
    \/ connectedSwap
    \/ SelectChainSettled
    \/ SwapCallbackRejected
    \/ SwapCallbackResolved
    \/ StatusLookup
    \/ FinalizeTransaction

SpecStatus == Init /\ [][NextStatus]_vars

NextProvider == ClientToProviderCall

SpecProvider == Init /\ [][NextProvider]_vars

\* The endpoint ordering applied to every endpoint-category record.
InitTransport ==
    /\ InitSwap
    /\ InitProvider
    /\ rpcUrls \in RpcUrlInputs
    /\ urlOut = NotBuilt

NextTransport == BuildTransportUrls

SpecTransport == InitTransport /\ [][NextTransport]_vars

\* ---------------------------------------------------------------- claims
SwapCompleted == op = "swap" /\ pc = "idle"
NeedsSwitch ==
    supportedConnectedChainId = NoChainId \/ supportedConnectedChainId # swapChainId

\* C1: a finished execute-swap call rejects with the error of the first
\* violated condition in the order trade present, wallet connected with an
\* address, target chain resolvable, target chain EVM, connected chain equal
\* to the target or switched to it; no validation error is reported when all
\* five hold.
C1_FirstViolatedConditionReported ==
    SwapCompleted =>
        LET c1 == trade # NoTrade
            c2 == account.isConnected /\ account.address # ""
            c3 == swapChainId # NoChainId
            c4 == swapChainId \in EVMChainIds
            c5 == ~NeedsSwitch \/ correctChain = "true"
        IN  /\ (~c1) => (error = ErrMissingTrade)
            /\ (c1 /\ ~c2) => (error = ErrWalletNotConnected)
            /\ (c1 /\ c2 /\ ~c3) => (error = ErrMissingChain)
            /\ (c1 /\ c2 /\ c3 /\ ~c4) => (error = ErrUnsupportedChainFamily)
            /\ (c1 /\ c2 /\ c3 /\ c4 /\ ~c5) => (error = ErrChainMismatch)
            /\ (c1 /\ c2 /\ c3 /\ c4 /\ c5) => (error \notin ValidationErrors)

\* A call that violates conditions 2, 3 and 5 at once reported condition 2.
C1_Witness ==
    /\ SwapCompleted
    /\ trade # NoTrade
    /\ ~account.isConnected
    /\ swapChainId = NoChainId
    /\ supportedConnectedChainId = NoChainId
    /\ error = ErrWalletNotConnected

\* C2: while an execute-swap call is in flight, and after it ended in an
\* error, both stores equal their state before the call; a strategy error
\* reaches the caller unmodified; a disconnected wallet gives
\* WalletNotConnected.
C2_NoStoreWriteOnError ==
    (op = "swap") =>
        /\ (pc # "idle" \/ error # Undefined) =>
              (orders = ordersBefore /\ transactions = transactionsBefore)
        /\ (thrown # Undefined) => (error = thrown /\ result = NoResult)
        /\ (pc = "idle" /\ trade # NoTrade /\ ~account.isConnected) =>
              (error = ErrWalletNotConnected)

\* A strategy rejected after a successful chain switch.
C2_Witness ==
    /\ SwapCompleted
    /\ thrown \in StrategyErrors
    /\ error = thrown
    /\ correctChain = "true"

\* C3: a successful execute-swap call appended exactly one record, to the
\* order store for a UniswapX / UniswapXv2 result and to the transaction
\* store for a Classic result, and left the other store as it was.
C3_OneRecordInStoreOfResultTag ==
    (SwapCompleted /\ result # NoResult) =>
        IF result.type \in {"UniswapX", "UniswapXv2"}
        THEN /\ Len(orders) = Len(ordersBefore) + 1
             /\ SubSeq(orders, 1, Len(ordersBefore)) = ordersBefore
             /\ orders[Len(orders)].orderHash = result.response.orderHash
             /\ transactions = transactionsBefore
        ELSE /\ Len(transactions) = Len(transactionsBefore) + 1
             /\ SubSeq(transactions, 1, Len(transactionsBefore)) = transactionsBefore
             /\ transactions[Len(transactions)].hash = result.response.hash
             /\ orders = ordersBefore

C3_Witness ==
    /\ SwapCompleted
    /\ result.type = "UniswapXv2"
    /\ Len(orders) = Len(ordersBefore) + 1
    /\ transactions = transactionsBefore

\* C4: a chain switch is attempted exactly when conditions 1-4 hold and the
\* connected chain is unsupported or differs from the target; at most once;
\* a failed attempt ends the call with ChainMismatch without invoking a
\* strategy; a strategy is invoked only after no switch was needed or the
\* switch succeeded.
C4_SingleSwitchBeforeStrategy ==
    (op = "swap") =>
        /\ switchAttempts <= 1
        /\ (switchAttempts = 1) <=>
              (/\ trade # NoTrade
               /\ account.isConnected /\ account.address # ""
               /\ swapChainId # NoChainId
               /\ swapChainId \in EVMChainIds
               /\ NeedsSwitch)
        /\ (correctChain # Undefined) => (switchAttempts = 1)
        /\ (correctChain = "false") =>
              (error = ErrChainMismatch /\ strategyCalls = <<>> /\ pc = "idle")
        /\ (pc = "selectChain") => (strategyCalls = <<>>)
        /\ (strategyCalls # <<>>) =>
              (Len(strategyCalls) = 1
               /\ (switchAttempts = 0 \/ correctChain = "true"))

C4_Witness ==
    /\ SwapCompleted
    /\ switchAttempts = 1
    /\ correctChain = "false"
    /\ error = ErrChainMismatch
    /\ strategyCalls = <<>>

\* C5: the record appended to the order store by a successful call carries
\* the validated target chain of the swap as its chain id.
C5_OrderCarriesTargetChain ==
    (SwapCompleted /\ isUniswapXOrder(result)) =>
        (orders[Len(orders)].chainId = swapChainId)

\* C6: the recorded TransactionInfo has exactly the exact-input fields for an
\* exact-input trade and exactly the exact-output fields for an exact-output
\* trade, with the direction tag of the trade and the amounts of the trade
\* adjusted by the slippage tolerance.
CommonInfoFields ==
    {"type", "inputCurrencyId", "outputCurrencyId", "isUniswapXOrder", "tradeType"}
ExactInputFields ==
    {"inputCurrencyAmountRaw", "expectedOutputCurrencyAmountRaw",
     "minimumOutputCurrencyAmountRaw"}
ExactOutputFields ==
    {"maximumInputCurrencyAmountRaw", "outputCurrencyAmountRaw",
     "expectedInputCurrencyAmountRaw"}
RecordedInfo ==
    IF isUniswapXOrder(result) THEN orders[Len(orders)].swapInfo
    ELSE transactions[Len(transactions)].info

C6_InfoFieldsFollowDirection ==
    (SwapCompleted /\ result # NoResult) =>
        LET info == RecordedInfo IN
        /\ info.tradeType = trade.tradeType
        /\ IF trade.tradeType = "EXACT_INPUT"
           THEN /\ DOMAIN info = CommonInfoFields \cup ExactInputFields
                /\ info.inputCurrencyAmountRaw = quotientToString(trade.inputAmount)
                /\ info.expectedOutputCurrencyAmountRaw =
                       quotientToString(trade.outputAmount)
                /\ info.minimumOutputCurrencyAmountRaw =
                       quotientToString((trade.outputAmount * 10000)
                                        \div (10000 + allowedSlippage))
           ELSE /\ DOMAIN info = CommonInfoFields \cup ExactOutputFields
                /\ info.outputCurrencyAmountRaw = quotientToString(trade.outputAmount)
                /\ info.expectedInputCurrencyAmountRaw =
                       quotientToString(trade.inputAmount)
                /\ info.maximumInputCurrencyAmountRaw =
                       quotientToString((trade.inputAmount * (10000 + allowedSlippage))
                                        \div 10000)

\* An exact-output classic trade with 100% slippage was recorded.
C6_Witness ==
    /\ SwapCompleted
    /\ result.type = "Classic"
    /\ trade.tradeType = "EXACT_OUTPUT"
    /\ allowedSlippage = 10000
    /\ transactions[Len(transactions)].info.maximumInputCurrencyAmountRaw = "2"

\* C7: the status lookup returns a status exactly when its argument is an
\* on-chain (Classic) result whose hash has a record in the transaction
\* store, and then the status of that record; otherwise undefined; and a
\* lookup changes neither store.
C7_StatusOnlyForKnownClassic ==
    /\ [](op = "status" =>
            LET known ==
                    /\ statusQuery.type = "Classic"
                    /\ \E i \in 1..Len(transactions) :
                          transactions[i].hash = statusQuery.response.hash
            IN  /\ (statusOut # Undefined) <=> known
                /\ known =>
                      \E i \in 1..Len(transactions) :
                          /\ transactions[i].hash = statusQuery.response.hash
                          /\ transactions[i].status = statusOut)
    /\ [][op' = "status" => UNCHANGED <<orders, transactions>>]_vars

\* A lookup of a settled transaction returned its status.
C7_Witness ==
    /\ op = "status"
    /\ statusQuery.type = "Classic"
    /\ statusOut = "success"

\* C9: at most one provider is ever constructed per client handle, a stored
\* entry is never replaced, a call that finds an entry returns it whatever
\* chain id it passes, and a call that misses stores what it returns.
C9_OneProviderPerClient ==
    /\ [](\A c \in ClientIds :
            Cardinality({i \in 1..Len(constructed) : constructed[i].client = c}) <= 1)
    /\ [][\A c \in ClientIds :
            (providers[c] # NoProvider) => (providers'[c] = providers[c])]_vars
    /\ [](pHit => (pOutcome = "return" /\ pReturn = providers[pClient.id]))
    /\ []((pOutcome = "return" /\ pReturn # NoProvider) =>
            (pReturn = providers[pClient.id]))

\* A hit with a chain id other than the one the provider was constructed with.
C9_Witness ==
    /\ pHit
    /\ pReturn # NoProvider
    /\ pReturn = providers[pClient.id]
    /\ \E i \in 1..Len(constructed) :
          /\ constructed[i].client = pClient.id
          /\ constructed[i].chainId # pChainId

\* C10: for a client handle without a network descriptor the adapter does
\* not throw: it returns undefined and stores nothing when no chain id is
\* given, and a provider on the "Unsupported" network of the given chain id
\* otherwise.
C10_ChainlessClientDoesNotThrow ==
    (pOutcome # "none" /\ pClient # NoClient /\ pClient.chain = NoChain) =>
        /\ pOutcome = "return"
        /\ (pChainId = NoChainId) =>
              (pReturn = NoProvider /\ providers[pClient.id] = NoProvider)
        /\ (pChainId # NoChainId) =>
              (/\ pReturn # NoProvider
               /\ pReturn.network = [chainId |-> pChainId, name |-> "Unsupported"])

\* C8: the endpoint order is the concatenation interface, default, public,
\* fallback without empty URLs and without duplicates, first occurrence
\* kept: no duplicates, no empty URL, exactly the non-empty URLs of the
\* input, in first-seen order.
ConcatenatedUrls ==
    (IF rpcUrls.interface.present THEN rpcUrls.interface.http ELSE <<>>)
    \o (IF rpcUrls.default.present THEN rpcUrls.default.http ELSE <<>>)
    \o (IF rpcUrls.public.present THEN rpcUrls.public.http ELSE <<>>)
    \o (IF rpcUrls.fallback.present THEN rpcUrls.fallback.http ELSE <<>>)

FirstIndex(array, url) ==
    CHOOSE i \in 1..Len(array) :
        array[i] = url /\ \A j \in 1..(i - 1) : array[j] # url

C8_PriorityOrderedDeduplicated ==
    (urlOut # NotBuilt) =>
        LET all == ConcatenatedUrls IN
        /\ \A i, j \in 1..Len(urlOut) : (urlOut[i] = urlOut[j]) => (i = j)
        /\ \A i \in 1..Len(urlOut) : urlOut[i] # ""
        /\ {urlOut[i] : i \in 1..Len(urlOut)} =
               {all[i] : i \in 1..Len(all)} \ {""}
        /\ \A i, j \in 1..Len(urlOut) :
               (i < j) => (FirstIndex(all, urlOut[i]) < FirstIndex(all, urlOut[j]))

\* interface {a,b}, default {b,c}, public {d}, fallback {} gave [a,b,c,d].
C8_Witness ==
    /\ rpcUrls.interface.http = <<"a", "b">>
    /\ rpcUrls.default.http = <<"b", "c">>
    /\ rpcUrls.public.http = <<"d">>
    /\ rpcUrls.fallback = [present |-> TRUE, http |-> <<>>]
    /\ urlOut = <<"a", "b", "c", "d">>

\* C11: a call that passed validation invoked exactly one strategy, once:
\* uniswapXSwapCallback for a UniswapX trade, universalRouterSwapCallback
\* otherwise; a call that failed validation, or has not passed it yet,
\* invoked none; a successful call returns the SwapResult its strategy
\* resolved with, unchanged.
C11_OneStrategyByTradeTag ==
    (op = "swap") =>
        LET passed ==
                /\ trade # NoTrade
                /\ account.isConnected /\ account.address # ""
                /\ swapChainId # NoChainId
                /\ swapChainId \in EVMChainIds
                /\ (~NeedsSwitch \/ correctChain = "true")
        IN  /\ passed =>
                  (strategyCalls =
                       <<IF trade.fillType = "UniswapX" THEN "uniswapXSwapCallback"
                         ELSE "universalRouterSwapCallback">>)
            /\ (~passed) => (strategyCalls = <<>> /\ result = NoResult)
            /\ (pc = "idle" /\ passed /\ error = Undefined) =>
                  (/\ resolved # NoResult
                   /\ result = resolved
                   /\ IF trade.fillType = "UniswapX"
                      THEN resolved.type \in {"UniswapX", "UniswapXv2"}
                      ELSE resolved.type = "Classic")

\* A UniswapX trade went through a successful chain switch, invoked the
\* off-chain strategy only, and returned its result.
C11_Witness ==
    /\ SwapCompleted
    /\ trade.fillType = "UniswapX"
    /\ correctChain = "true"
    /\ strategyCalls = <<"uniswapXSwapCallback">>
    /\ resolved.type = "UniswapXv2"
    /\ result = resolved

====
